---- MODULE Spec2Model ----
(***************************************************************************)
(* Model of the resume-analysis application:                               *)
(*   src/utils/api_key_manager.py  APIKeyManager, get_api_key_manager      *)
(*   src/app.py                    extract_text_from_file, the bulk        *)
(*                                 processing loop of "Analyze All Resumes" *)
(* crew_setup.run_complete_analysis is imported by src/app.py but is not   *)
(* part of the sources; its retry/rotation policy is modelled from         *)
(* spec.md section 4.3.                                                    *)
(***************************************************************************)
EXTENDS Integers, Sequences, FiniteSets, TLC

VARIABLES
    \* ---- credential sources and the process-wide APIKeyManager
    st_secrets,        \* streamlit secrets: available?, slot -> GROQ_API_KEY_<slot>
    environ,           \* os.environ: slot -> value for GROQ_API_KEY_<slot>
    environ_single,    \* os.environ value of the unsuffixed GROQ_API_KEY
    api_key_manager,   \* module global _api_key_manager: NONE or "APIKeyManager"
    api_keys,          \* self.api_keys
    current_index,     \* self.current_index
    ret,               \* outcome of the last APIKeyManager method call
    rotate_calls,      \* number of direct rotate_to_next() calls made so far
    \* ---- analysis pipeline of one document (crew_setup, from spec.md 4.3)
    ppc,               \* "idle", "Parsing", "Parsed", "Scoring", or a terminal state
    tries,             \* the current stage's attempts: pool index used, response
    presult,           \* what run_complete_analysis hands back to its caller
    pipeline_runs,     \* pipeline runs started by the stand-alone driver
    \* ---- bulk processing loop and the session around it
    uploaded_files, shortlist_threshold, bpc, idx, successful, failed,
    failed_files, all_results, progress, resume_text, outcomes, session_docs,
    \* ---- one uploaded file handed to extract_text_from_file again and again
    xfile,             \* the uploaded file
    xpos,              \* read position of its stream
    xresults,          \* what each call so far returned
    \* ---- threads calling into api_key_manager.py at the same time
    managers,          \* the APIKeyManager objects constructed so far
    module_manager,    \* _api_key_manager: 0 for None, or a position in managers
    callers            \* per thread: where it stands and what it holds

key_vars == <<st_secrets, environ, environ_single, api_key_manager, api_keys,
              current_index, ret, rotate_calls>>
pipe_vars == <<ppc, tries, presult, pipeline_runs>>
batch_vars == <<uploaded_files, shortlist_threshold, bpc, idx, successful, failed,
                failed_files, all_results, progress, resume_text, outcomes,
                session_docs>>
extract_vars == <<xfile, xpos, xresults>>
race_vars == <<managers, module_manager, callers>>
vars == <<key_vars, pipe_vars, batch_vars, extract_vars, race_vars>>

\* ------------------------------------------------------------------ bounds
\* highest numbered slot that may hold a value in the secrets store
MaxSecretSlot == 1
\* highest numbered slot that may hold a value in the environment
MaxEnvSlot == 3
\* direct rotate_to_next() calls explored by the key-manager specification
MaxRotations == 7
\* credentials in the pool while batches run
MaxBatchKeys == 1
\* documents uploaded over all the batches of one session
MaxSessionDocs == 3
\* documents the stand-alone pipeline driver analyses
MaxPipelineRuns == 2
\* pages of a PDF document, paragraphs of a DOCX document
MaxPages == 2
\* last read position of an uploaded stream (0 is its start)
StreamEnd == 1
\* successive extract_text_from_file calls on one uploaded file
MaxExtractCalls == 2
\* threads that call get_api_key_manager().rotate_to_next() at the same time
MaxCallers == 2

\* ------------------------------------------------------- values and stores
\* Python None
NONE == "None"
\* the placeholder value compared against at api_key_manager.py:31
Placeholder == "your_first_api_key_here"
\* range(1, 10) at api_key_manager.py:27 and :50
NumKeySlots == 9
KeySlots == 1..NumKeySlots

SecretKey(i) == <<"gsk_s1", "gsk_s2", "gsk_s3", "gsk_s4", "gsk_s5",
                  "gsk_s6", "gsk_s7", "gsk_s8", "gsk_s9">>[i]
EnvKey(i) == <<"gsk_e1", "gsk_e2", "gsk_e3", "gsk_e4", "gsk_e5",
               "gsk_e6", "gsk_e7", "gsk_e8", "gsk_e9">>[i]
SingleKey == "gsk_single"

\* the store with no slot set
NoKeys == [i \in KeySlots |-> NONE]
\* st.secrets missing, empty, or raising when touched (lines 23, 39-45)
Unavailable == [available |-> FALSE, keys |-> NoKeys]
\* st.secrets holding the numbered keys of store
Secrets(store) == [available |-> TRUE, keys |-> store]

\* the stores whose slots above n are unset and whose slot i <= n holds
\* None or one of the values vals(i)
Stores(n, vals(_)) ==
    LET All == UNION { vals(i) : i \in 1..n }
        Low == { g \in [1..n -> All \cup {NONE}] :
                   \A i \in 1..n : g[i] \in vals(i) \cup {NONE} }
    IN  { [i \in KeySlots |-> IF i <= n THEN g[i] ELSE NONE] : g \in Low }

SecretValues(i) == {Placeholder, SecretKey(i)}
EnvValues(i) == {EnvKey(i)}
\* what a slot may hold when a deployment is configured by hand: left at the
\* placeholder of the template, emptied, or filled in
AnySecretValues(i) == {"", Placeholder, SecretKey(i)}
AnyEnvValues(i) == {"", Placeholder, EnvKey(i)}
\* the store whose first n slots hold keys and whose other slots are unset
PrefixEnv(n) == [i \in KeySlots |-> IF i <= n THEN EnvKey(i) ELSE NONE]

\* ----------------------------------------------------- APIKeyManager.__init__
RECURSIVE SecretsFrom(_, _)
\* lines 27-35: the keys of slots i..9 of the secrets store, in slot order
SecretsFrom(secrets, i) ==
    IF i > NumKeySlots THEN <<>>
    ELSE LET key == secrets[i]
         IN  (IF key # NONE /\ key # "" /\ key # Placeholder
              THEN <<key>> ELSE <<>>) \o SecretsFrom(secrets, i + 1)

\* lines 20-45: the pool after the secrets store was consulted
LoadSecrets(secrets) ==
    IF ~secrets.available THEN <<>> ELSE SecretsFrom(secrets.keys, 1)

RECURSIVE EnvFrom(_, _)
\* lines 50-54: the keys of slots i..9 of the environment, in slot order
EnvFrom(env, i) ==
    IF i > NumKeySlots THEN <<>>
    ELSE LET key == env[i]
         IN  (IF key # NONE /\ key # "" THEN <<key>> ELSE <<>>)
             \o EnvFrom(env, i + 1)

\* lines 57-61: the single unsuffixed key
LoadSingle(single) ==
    IF single # NONE /\ single # "" THEN <<single>> ELSE <<>>

\* lines 15-63: self.api_keys as __init__ leaves it
LoadKeys(secrets, env, single) ==
    LET fromSecrets == LoadSecrets(secrets)
        fromEnv == IF fromSecrets = <<>> THEN EnvFrom(env, 1) ELSE fromSecrets
    IN  IF fromEnv = <<>> THEN LoadSingle(single) ELSE fromEnv

\* the 1-based key number taken for the starting index
InitialIndexOneBased == 0 + 1

\* line 63
InitialIndex == 0

\* ------------------------------------------------------ APIKeyManager methods
\* a method's outcome: the exception raised (NONE when it returned) and
\* the value returned
Returned(op, v) == [op |-> op, raised |-> NONE, value |-> v]
Raised(op, e) == [op |-> op, raised |-> e, value |-> NONE]
NoCall == [op |-> NONE, raised |-> NONE, value |-> NONE]

\* get_current_key without its guard against an empty pool
get_current_key_unguarded(keys, index) ==
    Returned("get_current_key", IF keys = <<>> THEN NONE ELSE keys[index + 1])

\* lines 72-76
get_current_key(keys, index) ==
    IF keys = <<>>
    THEN Raised("get_current_key", "ValueError: No API keys configured!")
    ELSE Returned("get_current_key", keys[index + 1])

\* the advance without the wrap-around
NextIndexSaturating(keys, index) ==
    IF index + 1 = Len(keys) THEN index ELSE index + 1

\* the advance by two positions
NextIndexSkipping(keys, index) == (index + 2) % Len(keys)

\* line 85: the index rotate_to_next moves to
NextIndex(keys, index) == (index + 1) % Len(keys)

\* a rotation that leaves the index where it is
RotatedIndexStuck(keys, index) == index

\* lines 78-87: the index rotate_to_next leaves
RotatedIndex(keys, index) ==
    IF Len(keys) <= 1 THEN index ELSE NextIndex(keys, index)

\* rotate_to_next raising on an empty pool, as get_current_key does
rotate_to_next_raising(keys, index) ==
    IF keys = <<>>
    THEN Raised("rotate_to_next", "ValueError: No API keys configured!")
    ELSE Returned("rotate_to_next", keys[RotatedIndex(keys, index) + 1])

\* lines 78-87: what rotate_to_next returns
rotate_to_next(keys, index) ==
    IF Len(keys) <= 1
    THEN Returned("rotate_to_next", IF keys # <<>> THEN keys[1] ELSE NONE)
    ELSE Returned("rotate_to_next", keys[RotatedIndex(keys, index) + 1])

\* lines 89-91
get_key_number(index) == index + 1

\* lines 93-95
get_total_keys(keys) == Len(keys)

\* ------------------------------------------------- key-manager operations
Constructed == api_key_manager # NONE

\* lines 101-106: get_api_key_manager() builds the manager on first use
GetApiKeyManager ==
    /\ IF api_key_manager = NONE
       THEN /\ api_key_manager' = "APIKeyManager"
            /\ api_keys' = LoadKeys(st_secrets, environ, environ_single)
            /\ current_index' = InitialIndex
       ELSE UNCHANGED <<api_key_manager, api_keys, current_index>>
    /\ ret' = NoCall
    /\ UNCHANGED <<st_secrets, environ, environ_single, rotate_calls>>

\* lines 72-76, called on the shared manager
GetCurrentKey ==
    /\ Constructed
    /\ ret' = get_current_key(api_keys, current_index)
    /\ UNCHANGED <<st_secrets, environ, environ_single, api_key_manager,
                   api_keys, current_index, rotate_calls>>

\* a rotation that moves the spent key to the back of the pool instead of
\* moving the index
RotateToNextReordering ==
    /\ Constructed
    /\ rotate_calls < MaxRotations
    /\ api_keys' = IF Len(api_keys) <= 1 THEN api_keys
                   ELSE Tail(api_keys) \o <<Head(api_keys)>>
    /\ ret' = rotate_to_next(api_keys, current_index)
    /\ rotate_calls' = rotate_calls + 1
    /\ UNCHANGED <<st_secrets, environ, environ_single, api_key_manager,
                   current_index>>

\* lines 78-87, called on the shared manager
RotateToNext ==
    /\ Constructed
    /\ rotate_calls < MaxRotations
    /\ current_index' = RotatedIndex(api_keys, current_index)
    /\ ret' = rotate_to_next(api_keys, current_index)
    /\ rotate_calls' = rotate_calls + 1
    /\ UNCHANGED <<st_secrets, environ, environ_single, api_key_manager, api_keys>>

\* lines 89-91, called on the shared manager
GetKeyNumber ==
    /\ Constructed
    /\ ret' = Returned("get_key_number", get_key_number(current_index))
    /\ UNCHANGED <<st_secrets, environ, environ_single, api_key_manager,
                   api_keys, current_index, rotate_calls>>

\* lines 93-95, called on the shared manager
GetTotalKeys ==
    /\ Constructed
    /\ ret' = Returned("get_total_keys", get_total_keys(api_keys))
    /\ UNCHANGED <<st_secrets, environ, environ_single, api_key_manager,
                   api_keys, current_index, rotate_calls>>

\* ------------------------------------------- concurrent callers (no lock)
\* Neither get_api_key_manager nor rotate_to_next takes a lock, so between
\* any two reads or writes of _api_key_manager or self.current_index another
\* thread may run.  Each thread calls get_api_key_manager() and then
\* rotate_to_next() on the object it was handed.
Callers == 1..MaxCallers

\* a thread before its call: the manager it holds (0: none), the index it
\* read at line 85, the index it stored at line 85, the key it was returned
NewCaller == [pc |-> "start", manager |-> 0, index_read |-> -1,
              index_set |-> -1, got |-> NONE]

\* line 104: if _api_key_manager is None
CheckManager(c) ==
    /\ callers[c].pc = "start"
    /\ callers' = [callers EXCEPT ![c].pc = IF module_manager = 0
                                           THEN "construct" ELSE "return"]
    /\ UNCHANGED <<managers, module_manager>>

\* line 105: _api_key_manager = APIKeyManager()
ConstructManager(c) ==
    /\ callers[c].pc = "construct"
    /\ managers' = Append(managers,
                          [api_keys |-> LoadKeys(st_secrets, environ, environ_single),
                           current_index |-> InitialIndex])
    /\ module_manager' = Len(managers) + 1
    /\ callers' = [callers EXCEPT ![c].pc = "return"]

\* line 106: return _api_key_manager
ReturnManager(c) ==
    /\ callers[c].pc = "return"
    /\ callers' = [callers EXCEPT ![c].manager = module_manager,
                                  ![c].pc = "rotate"]
    /\ UNCHANGED <<managers, module_manager>>

\* lines 80-85: the small-pool return, or the read of self.current_index
\* on the right-hand side of line 85
RotateRead(c) ==
    /\ callers[c].pc = "rotate"
    /\ LET self == managers[callers[c].manager]
       IN  IF Len(self.api_keys) <= 1
           THEN callers' = [callers EXCEPT
                    ![c].got = rotate_to_next(self.api_keys, self.current_index).value,
                    ![c].pc = "done"]
           ELSE callers' = [callers EXCEPT
                    ![c].index_read = self.current_index,
                    ![c].pc = "store"]
    /\ UNCHANGED <<managers, module_manager>>

\* line 85: the assignment to self.current_index
RotateStore(c) ==
    /\ callers[c].pc = "store"
    /\ LET m == callers[c].manager
           new == NextIndex(managers[m].api_keys, callers[c].index_read)
       IN  /\ managers' = [managers EXCEPT ![m].current_index = new]
           /\ callers' = [callers EXCEPT ![c].index_set = new,
                                         ![c].pc = "result"]
    /\ UNCHANGED module_manager

\* line 87: return self.api_keys[self.current_index]
RotateReturn(c) ==
    /\ callers[c].pc = "result"
    /\ LET self == managers[callers[c].manager]
       IN  callers' = [callers EXCEPT
               ![c].got = get_current_key(self.api_keys, self.current_index).value,
               ![c].pc = "done"]
    /\ UNCHANGED <<managers, module_manager>>

\* ------------------------------------------------------ extract_text_from_file
\* A text is a sequence of characters; "x" stands for any printing character,
\* " " and "\n" for white space.
IsBlank(text) == \A i \in 1..Len(text) : text[i] \in {" ", "\n"}

PdfType == "application/pdf"
DocxType == "application/vnd.openxmlformats-officedocument.wordprocessingml.document"
TextType == "text/plain"
\* name.endswith(".docx"), line 91
EndsWithDocx(name) == name \in {"b.docx"}

\* A page of a PDF as one library reads it: kind "text" (extract_text()
\* returns the text), "None" (it returns None) or "raise" (it raises).
PageText(page) == IF page.kind = "text" THEN page.text ELSE <<>>

RECURSIVE PagesText(_)
\* lines 69-71 and 81-83: text += page.extract_text() or "", over the pages
PagesText(pages) ==
    IF pages = <<>> THEN <<>>
    ELSE PageText(Head(pages)) \o PagesText(Tail(pages))

PdfAttemptSkipsRaising(reader) ==
    IF reader.opens /\ ~IsBlank(PagesText(reader.pages))
    THEN [ok |-> TRUE, text |-> PagesText(reader.pages)]
    ELSE [ok |-> FALSE, text |-> <<>>]

\* lines 67-75 and 78-87: one PDF library's attempt; ok is FALSE when the
\* try block raised (opening the file, or any page) or the text is blank
PdfAttempt(reader) ==
    IF /\ reader.opens
       /\ \A i \in 1..Len(reader.pages) : reader.pages[i].kind # "raise"
       /\ ~IsBlank(PagesText(reader.pages))
    THEN [ok |-> TRUE, text |-> PagesText(reader.pages)]
    ELSE [ok |-> FALSE, text |-> <<>>]

RECURSIVE JoinParagraphs(_)
\* line 94: "\n".join(para.text for para in doc.paragraphs)
JoinParagraphs(paras) ==
    IF paras = <<>> THEN <<>>
    ELSE IF Len(paras) = 1 THEN Head(paras)
    ELSE Head(paras) \o <<"\n">> \o JoinParagraphs(Tail(paras))

Positions == 0..StreamEnd

\* The upload is a stream with a read position, 0 being its start.  What a
\* library call reads from it:
\*   PyPDF2.PdfReader (line 68) and docx.Document (line 93) locate their
\*   tables from the end of the stream, wherever the position stands;
\*   getvalue() (line 103) returns the whole buffer and ignores the position;
\*   pdfplumber.open (line 80) is only known to read the document when the
\*   stream stands at its start, which is why line 79 rewinds it.
PyPDF2Reader(file, pos) == file.pypdf2
DocxDocument(file, pos) == file.docx
GetValue(file, pos) == [decodes |-> file.decodes, bytes |-> file.bytes]
PlumberReader(file, pos) == IF pos = 0 THEN file.pdfplumber
                            ELSE [opens |-> FALSE, pages |-> <<>>]

SeekSkipped(pos) == pos

\* line 79: uploaded_file.seek(0); pos is where PyPDF2 left the stream
Seek0(pos) == 0

\* a library call on the stream: which library, and the position it found
Call(library, pos) == [library |-> library, pos |-> pos]

\* the returned (text, success, error) of lines 73-108, with the library
\* calls the invocation made on the stream
Extracted(text, calls) ==
    [text |-> text, success |-> TRUE, error |-> NONE, calls |-> calls]
NotExtracted(error, calls) ==
    [text |-> <<>>, success |-> FALSE, error |-> error, calls |-> calls]

extract_pdf_plumber_first(file, pos, after) ==
    LET a == PdfAttempt(PyPDF2Reader(file, after))
        b == PdfAttempt(PlumberReader(file, Seek0(pos)))
        callA == Call("PyPDF2", after)
        callB == Call("pdfplumber", Seek0(pos))
    IN  IF b.ok
        THEN Extracted(b.text, <<callB>>)
        ELSE IF a.ok
        THEN Extracted(a.text, <<callB, callA>>)
        ELSE NotExtracted("Could not extract text from PDF", <<callB, callA>>)

\* lines 65-89; after is the position the PyPDF2 attempt leaves the stream at
extract_pdf(file, pos, after) ==
    LET a == PdfAttempt(PyPDF2Reader(file, pos))
        b == PdfAttempt(PlumberReader(file, Seek0(after)))
        callA == Call("PyPDF2", pos)
        callB == Call("pdfplumber", Seek0(after))
    IN  IF a.ok
        THEN Extracted(a.text, <<callA>>)
        ELSE IF b.ok
        THEN Extracted(b.text, <<callA, callB>>)
        ELSE NotExtracted("Could not extract text from PDF", <<callA, callB>>)

\* lines 62-111; pos is the position of the stream when the call is made
extract_text_from_file(file, pos, after) ==
    IF file.type = PdfType
    THEN extract_pdf(file, pos, after)
    ELSE IF file.type = DocxType \/ EndsWithDocx(file.name)
    THEN LET doc == DocxDocument(file, pos)
             calls == <<Call("docx", pos)>>
         IN  IF ~doc.opens
             THEN NotExtracted("Error reading DOCX", calls)
             ELSE IF ~IsBlank(JoinParagraphs(doc.paragraphs))
             THEN Extracted(JoinParagraphs(doc.paragraphs), calls)
             ELSE NotExtracted("DOCX file is empty", calls)
    ELSE LET value == GetValue(file, pos)
             calls == <<Call("getvalue", pos)>>
         IN  IF ~value.decodes
             THEN NotExtracted("Error reading text file", calls)
             ELSE IF ~IsBlank(value.bytes)
             THEN Extracted(value.bytes, calls)
             ELSE NotExtracted("Text file is empty", calls)

\* an uploaded file; the fields a branch does not read are left empty
NoReader == [opens |-> FALSE, pages |-> <<>>]
NoDocx == [opens |-> FALSE, paragraphs |-> <<>>]
TextFile(name, decodes, bytes) ==
    [name |-> name, type |-> TextType, pypdf2 |-> NoReader,
     pdfplumber |-> NoReader, docx |-> NoDocx, decodes |-> decodes,
     bytes |-> bytes]

\* the files a batch is drawn from: a readable text file and a blank one
BatchFiles == { TextFile("a.txt", TRUE, <<"x">>), TextFile("b.txt", TRUE, <<" ">>) }

\* sequences over S of length 1..n
SeqsUpTo(S, n) == UNION { [1..k -> S] : k \in 1..n }

\* what extract_text() does on one page: returns a text, returns None, raises
Pages == { [kind |-> "text", text |-> t] : t \in {<<"x">>, <<"y">>, <<" ">>} }
         \cup { [kind |-> k, text |-> <<>>] : k \in {"None", "raise"} }
\* what one PDF library makes of a document: it cannot open it, or its pages
Readers == {[opens |-> FALSE, pages |-> <<>>]} \cup
           { [opens |-> TRUE, pages |-> ps] :
             ps \in {<<>>} \cup SeqsUpTo(Pages, MaxPages) }
PdfFiles ==
    { [name |-> "c.pdf", type |-> PdfType, pypdf2 |-> a, pdfplumber |-> b,
       docx |-> NoDocx, decodes |-> FALSE, bytes |-> <<>>] :
      a \in Readers, b \in Readers }
DocxFiles ==
    { [name |-> "b.docx", type |-> t, pypdf2 |-> NoReader,
       pdfplumber |-> NoReader, docx |-> d, decodes |-> FALSE, bytes |-> <<>>] :
      t \in {DocxType, TextType},
      d \in {NoDocx} \cup
            { [opens |-> TRUE, paragraphs |-> ps] :
              ps \in {<<>>} \cup SeqsUpTo({<<"x">>, <<" ">>, <<>>}, MaxPages) } }
TextFiles ==
    { TextFile("a.txt", d, b) :
      d \in BOOLEAN, b \in {<<>>, <<" ">>, <<"x">>, <<"x", "\n">>} }
\* the files the extraction specification hands to extract_text_from_file
ExtractFiles == PdfFiles \cup DocxFiles \cup TextFiles

\* --------------------------------------- run_complete_analysis (spec.md 4.3)
\* what the Insight Engine answers to one call (spec.md 6 and 7)
Retryable == {"RateLimited", "Transient"}

\* what run_complete_analysis hands to the loop: it raises (kind "raise"),
\* returns None (kind "None") or returns a dict (kind "dict") that may hold
\* "status", "error" and, under "analysis", "confidence_score"
NoResult == [kind |-> NONE, status |-> NONE, has_error |-> FALSE, error |-> NONE,
             has_score |-> FALSE, confidence_score |-> 0]
RaisedResult(e) == [NoResult EXCEPT !.kind = "raise", !.error = e]
NoneResult == [NoResult EXCEPT !.kind = "None"]
ErrorResult(has, e) ==
    [NoResult EXCEPT !.kind = "dict", !.status = "error", !.has_error = has,
                     !.error = IF has THEN e ELSE NONE]
SuccessResult(has, s) ==
    [NoResult EXCEPT !.kind = "dict", !.status = "success", !.has_score = has,
                     !.confidence_score = IF has THEN s ELSE 0]

\* the ways a PipelineError may reach the caller
FailureResults(e) ==
    {RaisedResult(e), NoneResult, ErrorResult(TRUE, e), ErrorResult(FALSE, e)}

\* attempts a stage may make: N = the total credential count
MaxAttempts(keys) == get_total_keys(keys)

Terminal == {"ConfigError", "ParseFailed", "ScoreFailed", "Scored"}
Running == {"Parsing", "Scoring"}
StageFailed(stage) == IF stage = "Parsing" THEN "ParseFailed" ELSE "ScoreFailed"
TriedIndices == [i \in 1..Len(tries) |-> tries[i].index]

\* the caller enters run_complete_analysis; the rotator is built on first use
BeginPipeline ==
    /\ ppc = "idle"
    /\ ppc' = "Parsing"
    /\ tries' = <<>>
    /\ presult' = NoResult
    /\ IF api_key_manager = NONE
       THEN /\ api_key_manager' = "APIKeyManager"
            /\ api_keys' = LoadKeys(st_secrets, environ, environ_single)
            /\ current_index' = InitialIndex
       ELSE UNCHANGED <<api_key_manager, api_keys, current_index>>
    /\ UNCHANGED <<st_secrets, environ, environ_single, ret, rotate_calls>>

\* get_current() fails on an empty pool: ConfigurationError(NoCredentials)
NoCredentials ==
    /\ ppc \in Running
    /\ get_current_key(api_keys, current_index).raised # NONE
    /\ ppc' = "ConfigError"
    /\ presult' = RaisedResult(get_current_key(api_keys, current_index).raised)
    /\ UNCHANGED <<tries, pipeline_runs, key_vars, batch_vars>>

\* an attempt with the current credential that the engine answers
AttemptOk(scores) ==
    /\ ppc \in Running
    /\ get_current_key(api_keys, current_index).raised = NONE
    /\ Len(tries) < MaxAttempts(api_keys)
    /\ tries' = Append(tries, [index |-> current_index, response |-> "ok"])
    /\ IF ppc = "Parsing"
       THEN /\ ppc' = "Parsed"
            /\ presult' = presult
       ELSE /\ ppc' = "Scored"
            /\ presult' \in { SuccessResult(TRUE, s) : s \in scores }
                              \cup { SuccessResult(FALSE, 0) }
    /\ UNCHANGED <<pipeline_runs, key_vars, batch_vars>>

\* an attempt that fails with a rate-limit-class error: rotate, then retry
\* unless this was the N-th attempt
AttemptRetryable ==
    /\ ppc \in Running
    /\ get_current_key(api_keys, current_index).raised = NONE
    /\ Len(tries) < MaxAttempts(api_keys)
    /\ \E r \in Retryable :
         tries' = Append(tries, [index |-> current_index, response |-> r])
    /\ current_index' = RotatedIndex(api_keys, current_index)
    /\ IF Len(tries) + 1 < MaxAttempts(api_keys)
       THEN /\ ppc' = ppc
            /\ presult' = presult
       ELSE /\ ppc' = StageFailed(ppc)
            /\ presult' \in FailureResults(StageFailed(ppc))
    /\ UNCHANGED <<pipeline_runs, st_secrets, environ, environ_single,
                   api_key_manager, api_keys, ret, rotate_calls, batch_vars>>

\* an attempt that fails with a Fatal error: the stage fails at once
AttemptFatal ==
    /\ ppc \in Running
    /\ get_current_key(api_keys, current_index).raised = NONE
    /\ Len(tries) < MaxAttempts(api_keys)
    /\ tries' = Append(tries, [index |-> current_index, response |-> "Fatal"])
    /\ ppc' = StageFailed(ppc)
    /\ presult' \in FailureResults(StageFailed(ppc))
    /\ UNCHANGED <<pipeline_runs, key_vars, batch_vars>>

\* stage 2 starts with its own fresh attempt budget
BeginScoring ==
    /\ ppc = "Parsed"
    /\ ppc' = "Scoring"
    /\ tries' = <<>>
    /\ UNCHANGED <<presult, pipeline_runs, key_vars, batch_vars>>

\* ------------------------------------------- the session and the bulk loop
\* st.slider("Shortlist Threshold Score", 0, 100, 70), lines 165-169
MinScore == 0
MaxScore == 100
DefaultThreshold == 70
AllScores == MinScore..MaxScore
BatchThresholds == {DefaultThreshold, MaxScore}
BatchScores == {MinScore, DefaultThreshold, MaxScore}

total_files == Len(uploaded_files)
uploaded_file_reversed == uploaded_files[total_files - idx]
\* line 215: for idx, uploaded_file in enumerate(uploaded_files)
uploaded_file == uploaded_files[idx + 1]
Fraction(n, d) == <<n, d>>

\* analysis.get("confidence_score", 0), lines 271-272
ScoreOf(result) == IF result.has_score THEN result.confidence_score ELSE 0

\* the comparison without the boundary
ShortlistedStrict(score, threshold) == score > threshold

\* line 272
Shortlisted(score, threshold) == score >= threshold

\* lines 265-278; the fields copied unchanged from the parsed resume are
\* left out
CandidateRecord(file, result, threshold) ==
    [resume_file |-> file.name,
     confidence_score |-> ScoreOf(result),
     shortlisted |-> Shortlisted(ScoreOf(result), threshold)]

\* line 251
IsSuccess(result) == result.kind = "dict" /\ result.status = "success"

\* lines 225, 247, 291-295: the failure-list entry of a file
FailureEntry(file, reason) == [file |-> file.name, reason |-> reason]
\* line 291
ErrorMsg(result) ==
    IF result.kind = "None" THEN "No result returned"
    ELSE IF result.has_error THEN result.error ELSE "Unknown error"

\* lines 205-213: the button is pressed with a non-empty upload
StartBatch(thresholds, uploads) ==
    /\ bpc \in {"idle", "done"}
    /\ ppc = "idle"
    /\ \E files \in uploads :
         /\ session_docs + Len(files) <= MaxSessionDocs
         /\ uploaded_files' = files
         /\ session_docs' = session_docs + Len(files)
    /\ shortlist_threshold' \in thresholds
    /\ progress' = <<Fraction(0, 1)>>
    /\ successful' = 0
    /\ failed' = 0
    /\ failed_files' = <<>>
    /\ idx' = 0
    /\ outcomes' = <<>>
    /\ resume_text' = <<>>
    /\ bpc' = "loop"
    /\ UNCHANGED <<all_results, key_vars, pipe_vars>>

\* lines 226-227, 248-249, 298: progress is reported and the loop moves on
NextFile ==
    /\ progress' = Append(progress, Fraction(idx + 1, total_files))
    /\ idx' = idx + 1
    /\ bpc' = "loop"

\* the failure branch leaving the loop instead of continuing
ExtractionFailedBreaks(error) ==
    /\ failed' = failed + 1
    /\ failed_files' = Append(failed_files, FailureEntry(uploaded_file, <<error>>))
    /\ progress' = Append(progress, Fraction(idx + 1, total_files))
    /\ idx' = idx + 1
    /\ bpc' = "done"

\* lines 222-227: the file could not be read
ExtractionFailed(error) ==
    /\ failed' = failed + 1
    /\ failed_files' = Append(failed_files, FailureEntry(uploaded_file, <<error>>))
    /\ NextFile

\* lines 215-229: extraction of the next file; a failure ends the iteration
ExtractStep ==
    /\ bpc = "loop"
    /\ idx < total_files
    /\ \E pos \in Positions, after \in Positions :
       LET e == extract_text_from_file(uploaded_file, pos, after)
       IN  IF ~e.success
           THEN /\ ExtractionFailed(e.error)
                /\ outcomes' = Append(outcomes, [extracted |-> FALSE,
                                                 result |-> NoResult])
                /\ UNCHANGED resume_text
           ELSE /\ resume_text' = e.text
                /\ bpc' = "analyze"
                /\ UNCHANGED <<failed, failed_files, progress, outcomes, idx>>
    /\ UNCHANGED <<uploaded_files, shortlist_threshold, successful, all_results,
                   session_docs, key_vars, pipe_vars>>

\* line 243: run_complete_analysis is entered
StartAnalysis ==
    /\ bpc = "analyze"
    /\ BeginPipeline
    /\ bpc' = "await"
    /\ UNCHANGED <<pipeline_runs, uploaded_files, shortlist_threshold, idx,
                   successful, failed, failed_files, all_results, progress,
                   resume_text, outcomes, session_docs>>

\* the except branch without its failed_files.append
AnalysisRaisedUnlisted ==
    /\ failed' = failed + 1
    /\ NextFile
    /\ UNCHANGED <<failed_files, successful, all_results>>

\* lines 244-249: run_complete_analysis raised
AnalysisRaised ==
    /\ failed' = failed + 1
    /\ failed_files' =
         Append(failed_files,
                FailureEntry(uploaded_file, <<"Analysis error", presult.error>>))
    /\ NextFile
    /\ UNCHANGED <<successful, all_results>>

\* the success branch re-deciding the shortlisted flag of the records already
\* in the list by the threshold now in force
AnalysisSucceededReflagging ==
    /\ all_results' =
         Append([i \in 1..Len(all_results) |->
                    [all_results[i] EXCEPT !.shortlisted =
                        Shortlisted(all_results[i].confidence_score,
                                    shortlist_threshold)]],
                CandidateRecord(uploaded_file, presult, shortlist_threshold))
    /\ successful' = successful + 1
    /\ NextFile
    /\ UNCHANGED <<failed, failed_files>>

\* lines 251-289 and 298: the result says success
AnalysisSucceeded ==
    /\ all_results' =
         Append(all_results,
                CandidateRecord(uploaded_file, presult, shortlist_threshold))
    /\ successful' = successful + 1
    /\ NextFile
    /\ UNCHANGED <<failed, failed_files>>

\* the else branch without its failed += 1
AnalysisFailedUncounted ==
    /\ failed_files' =
         Append(failed_files, FailureEntry(uploaded_file, <<ErrorMsg(presult)>>))
    /\ NextFile
    /\ UNCHANGED <<failed, successful, all_results>>

\* lines 290-298: no result, or a result that does not say success
AnalysisFailed ==
    /\ failed' = failed + 1
    /\ failed_files' =
         Append(failed_files, FailureEntry(uploaded_file, <<ErrorMsg(presult)>>))
    /\ NextFile
    /\ UNCHANGED <<successful, all_results>>

\* lines 242-298: the rest of the iteration once run_complete_analysis is over
HandleResult ==
    /\ bpc = "await"
    /\ ppc \in Terminal
    /\ IF presult.kind = "raise" THEN AnalysisRaised
       ELSE IF IsSuccess(presult) THEN AnalysisSucceeded
       ELSE AnalysisFailed
    /\ outcomes' = Append(outcomes, [extracted |-> TRUE, result |-> presult])
    /\ ppc' = "idle"
    /\ tries' = <<>>
    /\ presult' = NoResult
    /\ UNCHANGED <<pipeline_runs, uploaded_files, shortlist_threshold,
                   resume_text, session_docs, key_vars>>

FinishBatchSilent ==
    /\ bpc = "loop"
    /\ idx = total_files
    /\ bpc' = "done"
    /\ UNCHANGED <<uploaded_files, shortlist_threshold, idx, successful, failed,
                   failed_files, all_results, resume_text, outcomes, progress,
                   session_docs, key_vars, pipe_vars>>

\* lines 300-319: the loop is over
FinishBatch ==
    /\ bpc = "loop"
    /\ idx = total_files
    /\ progress' = Append(progress, Fraction(1, 1))
    /\ bpc' = "done"
    /\ UNCHANGED <<uploaded_files, shortlist_threshold, idx, successful, failed,
                   failed_files, all_results, resume_text, outcomes,
                   session_docs, key_vars, pipe_vars>>

\* ------------------------------------------- the stand-alone pipeline driver
DriverStart ==
    /\ pipeline_runs < MaxPipelineRuns
    /\ BeginPipeline
    /\ pipeline_runs' = pipeline_runs + 1
    /\ UNCHANGED batch_vars

DriverFinish ==
    /\ ppc \in Terminal
    /\ ppc' = "idle"
    /\ tries' = <<>>
    /\ presult' = NoResult
    /\ UNCHANGED <<pipeline_runs, key_vars, batch_vars>>

\* ------------------------------------------------------------ specifications
NoSession ==
    /\ uploaded_files = <<>>
    /\ shortlist_threshold = DefaultThreshold
    /\ bpc = "idle"
    /\ idx = 0
    /\ successful = 0
    /\ failed = 0
    /\ failed_files = <<>>
    /\ all_results = <<>>
    /\ progress = <<>>
    /\ resume_text = <<>>
    /\ outcomes = <<>>
    /\ session_docs = 0

NoPipeline ==
    /\ ppc = "idle"
    /\ tries = <<>>
    /\ presult = NoResult
    /\ pipeline_runs = 0

\* lines 98-99: no manager yet
NoManager ==
    /\ api_key_manager = NONE
    /\ api_keys = <<>>
    /\ current_index = InitialIndex
    /\ ret = NoCall
    /\ rotate_calls = 0

\* no file is under repeated extraction
NoExtraction ==
    /\ xfile = TextFile("a.txt", TRUE, <<"x">>)
    /\ xpos = 0
    /\ xresults = <<>>

\* no thread has called into the module
NoCallers ==
    /\ managers = <<>>
    /\ module_manager = 0
    /\ callers = <<>>

\* the key manager alone, called in any order
InitKeys ==
    /\ st_secrets \in {Unavailable} \cup
                      { Secrets(f) : f \in Stores(MaxSecretSlot, SecretValues) }
    /\ environ \in Stores(MaxEnvSlot, EnvValues)
    /\ environ_single \in {NONE, SingleKey}
    /\ NoManager /\ NoPipeline /\ NoSession /\ NoExtraction /\ NoCallers

NextKeys ==
    \/ GetApiKeyManager /\ UNCHANGED <<pipe_vars, batch_vars, extract_vars, race_vars>>
    \/ GetCurrentKey /\ UNCHANGED <<pipe_vars, batch_vars, extract_vars, race_vars>>
    \/ RotateToNext /\ UNCHANGED <<pipe_vars, batch_vars, extract_vars, race_vars>>
    \/ GetKeyNumber /\ UNCHANGED <<pipe_vars, batch_vars, extract_vars, race_vars>>
    \/ GetTotalKeys /\ UNCHANGED <<pipe_vars, batch_vars, extract_vars, race_vars>>

SpecKeys == InitKeys /\ [][NextKeys]_vars

\* the analysis pipeline alone, over pools of 0..MaxEnvSlot credentials
InitPipeline ==
    /\ st_secrets = Unavailable
    /\ environ \in { PrefixEnv(n) : n \in 0..MaxEnvSlot }
    /\ environ_single = NONE
    /\ NoManager /\ NoPipeline /\ NoSession /\ NoExtraction /\ NoCallers

NextPipeline ==
    \/ DriverStart /\ UNCHANGED <<extract_vars, race_vars>>
    \/ NoCredentials /\ UNCHANGED <<extract_vars, race_vars>>
    \/ AttemptOk(BatchScores) /\ UNCHANGED <<extract_vars, race_vars>>
    \/ AttemptRetryable /\ UNCHANGED <<extract_vars, race_vars>>
    \/ AttemptFatal /\ UNCHANGED <<extract_vars, race_vars>>
    \/ BeginScoring /\ UNCHANGED <<extract_vars, race_vars>>
    \/ DriverFinish /\ UNCHANGED <<extract_vars, race_vars>>

SpecPipeline == InitPipeline /\ [][NextPipeline]_vars

\* a session of batches
Init ==
    /\ st_secrets = Unavailable
    /\ environ \in { PrefixEnv(n) : n \in 0..MaxBatchKeys }
    /\ environ_single = NONE
    /\ NoManager /\ NoPipeline /\ NoSession /\ NoExtraction /\ NoCallers

Next ==
    \/ StartBatch(BatchThresholds, SeqsUpTo(BatchFiles, MaxSessionDocs)) /\ UNCHANGED <<extract_vars, race_vars>>
    \/ ExtractStep /\ UNCHANGED <<extract_vars, race_vars>>
    \/ StartAnalysis /\ UNCHANGED <<extract_vars, race_vars>>
    \/ NoCredentials /\ UNCHANGED <<extract_vars, race_vars>>
    \/ AttemptOk(BatchScores) /\ UNCHANGED <<extract_vars, race_vars>>
    \/ AttemptRetryable /\ UNCHANGED <<extract_vars, race_vars>>
    \/ AttemptFatal /\ UNCHANGED <<extract_vars, race_vars>>
    \/ BeginScoring /\ UNCHANGED <<extract_vars, race_vars>>
    \/ HandleResult /\ UNCHANGED <<extract_vars, race_vars>>
    \/ FinishBatch /\ UNCHANGED <<extract_vars, race_vars>>

Spec == Init /\ [][Next]_vars

\* the session's first batch, of one file, with the threshold and the scores
\* ranging over all of 0..100
InitShortlist == Init

StartSingle ==
    /\ session_docs = 0
    /\ StartBatch(AllScores, { <<f>> : f \in BatchFiles })

NextShortlist ==
    \/ StartSingle /\ UNCHANGED <<extract_vars, race_vars>>
    \/ ExtractStep /\ UNCHANGED <<extract_vars, race_vars>>
    \/ StartAnalysis /\ UNCHANGED <<extract_vars, race_vars>>
    \/ NoCredentials /\ UNCHANGED <<extract_vars, race_vars>>
    \/ AttemptOk(AllScores) /\ UNCHANGED <<extract_vars, race_vars>>
    \/ AttemptRetryable /\ UNCHANGED <<extract_vars, race_vars>>
    \/ AttemptFatal /\ UNCHANGED <<extract_vars, race_vars>>
    \/ BeginScoring /\ UNCHANGED <<extract_vars, race_vars>>
    \/ HandleResult /\ UNCHANGED <<extract_vars, race_vars>>
    \/ FinishBatch /\ UNCHANGED <<extract_vars, race_vars>>

SpecShortlist == InitShortlist /\ [][NextShortlist]_vars

\* the manager built from sources in any state of configuration
InitLoad ==
    /\ st_secrets \in {Unavailable} \cup
                      { Secrets(f) : f \in Stores(MaxSecretSlot, AnySecretValues) }
    /\ environ \in Stores(MaxEnvSlot, AnyEnvValues)
    /\ environ_single \in {NONE, "", Placeholder, SingleKey}
    /\ NoManager /\ NoPipeline /\ NoSession /\ NoExtraction /\ NoCallers

NextLoad ==
    \/ GetApiKeyManager /\ UNCHANGED <<pipe_vars, batch_vars, extract_vars, race_vars>>
    \/ GetCurrentKey /\ UNCHANGED <<pipe_vars, batch_vars, extract_vars, race_vars>>
    \/ GetKeyNumber /\ UNCHANGED <<pipe_vars, batch_vars, extract_vars, race_vars>>
    \/ GetTotalKeys /\ UNCHANGED <<pipe_vars, batch_vars, extract_vars, race_vars>>

SpecLoad == InitLoad /\ [][NextLoad]_vars

\* threads calling into api_key_manager.py at the same time
InitRace ==
    /\ st_secrets = Unavailable
    /\ environ \in { PrefixEnv(n) : n \in 0..MaxEnvSlot }
    /\ environ_single = NONE
    /\ NoManager /\ NoPipeline /\ NoSession /\ NoExtraction
    /\ managers = <<>>
    /\ module_manager = 0
    /\ callers = [c \in Callers |-> NewCaller]

NextRace ==
    \E c \in Callers :
        \/ CheckManager(c) /\ UNCHANGED <<key_vars, pipe_vars, batch_vars, extract_vars>>
        \/ ConstructManager(c) /\ UNCHANGED <<key_vars, pipe_vars, batch_vars, extract_vars>>
        \/ ReturnManager(c) /\ UNCHANGED <<key_vars, pipe_vars, batch_vars, extract_vars>>
        \/ RotateRead(c) /\ UNCHANGED <<key_vars, pipe_vars, batch_vars, extract_vars>>
        \/ RotateStore(c) /\ UNCHANGED <<key_vars, pipe_vars, batch_vars, extract_vars>>
        \/ RotateReturn(c) /\ UNCHANGED <<key_vars, pipe_vars, batch_vars, extract_vars>>

SpecRace == InitRace /\ [][NextRace]_vars

\* extract_text_from_file called again and again on one uploaded file, whose
\* stream each call leaves where its last library call left it
InitExtract ==
    /\ st_secrets = Unavailable
    /\ environ = PrefixEnv(0)
    /\ environ_single = NONE
    /\ NoManager /\ NoPipeline /\ NoSession /\ NoCallers
    /\ xfile \in ExtractFiles
    /\ xpos = 0
    /\ xresults = <<>>

ExtractCall ==
    /\ Len(xresults) < MaxExtractCalls
    /\ \E after \in Positions, left \in Positions :
          LET e == extract_text_from_file(xfile, xpos, after)
              last == e.calls[Len(e.calls)].library
          IN  /\ xresults' = Append(xresults, e)
              /\ xpos' = IF last = "getvalue" THEN xpos
                         ELSE IF last = "PyPDF2" THEN after
                         ELSE left
    /\ UNCHANGED <<xfile, key_vars, pipe_vars, batch_vars, race_vars>>

NextExtract ==
    \/ ExtractCall

SpecExtract == InitExtract /\ [][NextExtract]_vars

\* ------------------------------------------------------------------ claims
\* whether a processed file yielded a CandidateRecord
Yields(outcome) == outcome.extracted /\ IsSuccess(outcome.result)

RECURSIVE NamesOf(_, _)
\* the names of the first k files whose outcome yielded (or did not yield) a
\* record, in input order
NamesOf(k, yielded) ==
    IF k = 0 THEN <<>>
    ELSE NamesOf(k - 1, yielded) \o
         (IF Yields(outcomes[k]) = yielded THEN <<uploaded_files[k].name>>
          ELSE <<>>)

\* the records the running batch appended
BatchRecords ==
    SubSeq(all_results, Len(all_results) - successful + 1, Len(all_results))

\* C1: after each processed item successful + failed is the number of items
\* processed so far, and when the loop is over successful + failed = total,
\* the number of input documents, whatever the outcome of each document.
C1_CountsAddUp ==
    bpc # "idle" =>
        /\ successful + failed = Len(outcomes)
        /\ successful + failed = idx
        /\ bpc = "done" => successful + failed = total_files

\* C1 witness: a finished batch of three with every kind of failure
C1_Witness ==
    /\ bpc = "done"
    /\ total_files = 3
    /\ successful = 1
    /\ failed = 2
    /\ \E i \in 1..3 : ~outcomes[i].extracted
    /\ \E i \in 1..3 : outcomes[i].result.kind \in {"raise", "None"}

\* C2: the failure list holds exactly one entry for each input document that
\* did not yield a CandidateRecord and none for a document that did, in the
\* order of the documents in the input.
C2_FailureListMatches ==
    bpc # "idle" =>
        /\ [i \in 1..Len(failed_files) |-> failed_files[i].file]
             = NamesOf(Len(outcomes), FALSE)
        /\ [i \in 1..Len(BatchRecords) |-> BatchRecords[i].resume_file]
             = NamesOf(Len(outcomes), TRUE)

\* C2 witness: two failures of differently named files around a success
C2_Witness ==
    /\ bpc = "done"
    /\ total_files = 3
    /\ Len(failed_files) = 2
    /\ failed_files[1].file # failed_files[2].file
    /\ Yields(outcomes[2])
    /\ outcomes[1].result.kind = "raise"

\* C3: a failing document never ends the batch: the loop stops only when
\* every document has its outcome and can always take its next step; with
\* three documents of which only the second fails extraction the batch ends
\* with successful = 2, failed = 1, one failure entry for document 2 and the
\* records of documents 1 and 3 in that order.
C3_NeverAborts ==
    /\ bpc = "done" => (idx = total_files /\ Len(outcomes) = total_files)
    /\ bpc \in {"loop", "analyze", "await"} => ENABLED Next
    /\ ( /\ bpc = "done"
         /\ total_files = 3
         /\ Yields(outcomes[1])
         /\ ~outcomes[2].extracted
         /\ Yields(outcomes[3]) ) =>
           /\ successful = 2
           /\ failed = 1
           /\ Len(failed_files) = 1
           /\ failed_files[1].file = uploaded_files[2].name
           /\ failed_files[1].reason = <<"Text file is empty">>
           /\ Len(BatchRecords) = 2
           /\ BatchRecords[1].resume_file = uploaded_files[1].name
           /\ BatchRecords[1].confidence_score = ScoreOf(outcomes[1].result)
           /\ BatchRecords[2].resume_file = uploaded_files[3].name
           /\ BatchRecords[2].confidence_score = ScoreOf(outcomes[3].result)

\* C3 witness: the three-document batch whose second document is blank
C3_Witness ==
    /\ bpc = "done"
    /\ total_files = 3
    /\ Yields(outcomes[1])
    /\ ~outcomes[2].extracted
    /\ Yields(outcomes[3])
    /\ ScoreOf(outcomes[1].result) # ScoreOf(outcomes[3].result)

\* the number of credentials loaded at startup
LoadedCount == Len(LoadKeys(st_secrets, environ, environ_single))

\* C4: starting from a fresh rotator (current_index = 0) with N >= 1
\* credentials, after k calls of rotate_to_next() and no other mutation,
\* current_index = k mod N; with N = 1 the index stays 0.
C4_IndexIsCallsModN ==
    (Constructed /\ Len(api_keys) >= 1) =>
        current_index = rotate_calls % Len(api_keys)

\* C4 witness: a pool of three that was rotated past its end
C4_Witness ==
    /\ Constructed
    /\ Len(api_keys) = 3
    /\ rotate_calls = 5
    /\ current_index = 2

\* C5: once the manager is built with a non-empty pool, 0 <= current_index < N
\* in every state, N being the number of credentials loaded at startup, and
\* no call changes N.
C5_IndexValidAndPoolFixed ==
    /\ []((Constructed /\ api_keys # <<>>) =>
            /\ Len(api_keys) = LoadedCount
            /\ 0 <= current_index
            /\ current_index < LoadedCount)
    /\ [][Constructed => Len(api_keys') = Len(api_keys)]_vars

\* C5 witness: the index is back at 0 after a full turn of a pool of two
C5_Witness ==
    /\ Constructed
    /\ Len(api_keys) = 2
    /\ rotate_calls = 2
    /\ current_index = 0
    /\ ret.op = "get_total_keys"

\* C6: get_current_key() on an empty pool raises the no-credentials error
\* and returns nothing; on a non-empty pool it returns the credential at
\* current_index.
C6_GetCurrentKey ==
    ret.op = "get_current_key" =>
        IF api_keys = <<>>
        THEN /\ ret.raised = "ValueError: No API keys configured!"
             /\ ret.value = NONE
        ELSE /\ ret.raised = NONE
             /\ ret.value = api_keys[current_index + 1]

\* C6 witness: get_current_key() was called on an empty pool
C6_Witness ==
    /\ Constructed
    /\ api_keys = <<>>
    /\ ret.op = "get_current_key"
    /\ ret.raised # NONE

\* C7 as stated: with N <= 1 credentials rotate_to_next() leaves
\* current_index unchanged, returns the sole credential if N = 1, fails if
\* there is none, and never returns an absent credential.
C7_RotateSmallPoolFails ==
    (ret.op = "rotate_to_next" /\ Len(api_keys) <= 1) =>
        /\ current_index = InitialIndex
        /\ IF api_keys = <<>>
           THEN ret.raised # NONE
           ELSE ret.raised = NONE /\ ret.value = api_keys[1]

\* C7 amended: with N <= 1 credentials rotate_to_next() leaves
\* current_index unchanged and does not raise; it returns the sole
\* credential if N = 1 and None if there is no credential.
C7_RotateSmallPool ==
    (ret.op = "rotate_to_next" /\ Len(api_keys) <= 1) =>
        /\ current_index = InitialIndex
        /\ ret.raised = NONE
        /\ ret.value = IF api_keys = <<>> THEN NONE ELSE api_keys[1]

\* C7 witness: rotate_to_next() was called on an empty pool
C7_Witness ==
    /\ Constructed
    /\ api_keys = <<>>
    /\ ret.op = "rotate_to_next"
    /\ rotate_calls = 2

\* C8: within one stage for one document a rate-limit-class failure is
\* followed by a rotation and a retry with the next credential, the stage
\* makes at most N attempts, N the total credential count, and no credential
\* (pool position) serves two attempts of the stage.
C8_EachCredentialOnce ==
    LET N == Len(api_keys)
    IN  /\ Len(tries) <= N
        /\ \A i, j \in 1..Len(tries) : i # j => tries[i].index # tries[j].index
        /\ \A i \in 1..Len(tries) - 1 :
             /\ tries[i].response \in Retryable
             /\ tries[i + 1].index = (tries[i].index + 1) % N
        /\ (ppc \in Running /\ tries # <<>>) =>
             /\ tries[Len(tries)].response \in Retryable
             /\ current_index = (tries[Len(tries)].index + 1) % N

\* C8 witness: a stage gave up after trying each of three credentials once
C8_Witness ==
    /\ Len(api_keys) = 3
    /\ ppc = "ScoreFailed"
    /\ Len(tries) = 3
    /\ tries[1].index = 1
    /\ tries[3].response = "RateLimited"

\* C9: with 3 credentials and current_index 0 at the start, when the Stage-1
\* call is rate-limited with credentials 0 and 1 and succeeds with credential
\* 2, the stage succeeds and current_index is 2 afterwards.
C9_IndexStaysOnSuccess ==
    ( /\ Len(api_keys) = 3
      /\ ppc \in {"Parsed", "ParseFailed"}
      /\ Len(tries) = 3
      /\ tries[1].index = 0
      /\ tries[1].response = "RateLimited"
      /\ tries[2].response = "RateLimited"
      /\ tries[3].response = "ok" ) =>
        /\ ppc = "Parsed"
        /\ TriedIndices = <<0, 1, 2>>
        /\ current_index = 2

\* C9 witness: the scenario itself
C9_Witness ==
    /\ Len(api_keys) = 3
    /\ ppc = "Parsed"
    /\ [i \in 1..Len(tries) |-> tries[i].response]
         = <<"RateLimited", "RateLimited", "ok">>
    /\ tries[1].index = 0

RECURSIVE TextsJoined(_)
TextsJoined(pages) ==
    IF pages = <<>> THEN <<>>
    ELSE (IF Head(pages).kind = "text" THEN Head(pages).text ELSE <<>>)
         \o TextsJoined(Tail(pages))

\* the library opens the document and no page raises
ReadsThrough(reader) ==
    /\ reader.opens
    /\ ~\E i \in 1..Len(reader.pages) : reader.pages[i].kind = "raise"

\* the library reads the document through and the text is not blank
Usable(reader) == ReadsThrough(reader) /\ ~IsBlank(TextsJoined(reader.pages))

\* page 1 is read as non-blank text and page 2 raises, of two pages
SecondPageRaises(reader) ==
    /\ reader.opens
    /\ Len(reader.pages) = 2
    /\ reader.pages[1].kind = "text"
    /\ ~IsBlank(reader.pages[1].text)
    /\ reader.pages[2].kind = "raise"

\* C11 as stated: within a PDF strategy a page that raises is skipped and the
\* remaining pages are still read by that strategy, so a two-page document
\* whose page 2 raises yields success with the text of page 1 only, and a
\* PDF fails only if the text of all the pages that could be read is blank.
C11_RaisingPageSkipped ==
    \A k \in 1..Len(xresults) :
        xfile.type = PdfType =>
            /\ SecondPageRaises(xfile.pypdf2) =>
                   /\ xresults[k].success
                   /\ xresults[k].text = xfile.pypdf2.pages[1].text
            /\ ~xresults[k].success =>
                   \A reader \in {xfile.pypdf2, xfile.pdfplumber} :
                       reader.opens => IsBlank(TextsJoined(reader.pages))

\* C11, amended: a page whose extract_text() returns None is skipped, but a
\* page that raises abandons the whole strategy with the text read so far:
\* the PyPDF2 text is returned only when PyPDF2 reads every page without
\* raising and the text is not blank; otherwise the result is pdfplumber's,
\* on the same terms; otherwise "Could not extract text from PDF".  A
\* two-page document whose page 2 raises under PyPDF2 never yields page 1's
\* PyPDF2 text: it yields what pdfplumber reads, or fails.
C11_RaisingPageAbandonsStrategy ==
    \A k \in 1..Len(xresults) :
        xfile.type = PdfType =>
            LET r == xresults[k]
                A == xfile.pypdf2
                B == xfile.pdfplumber
            IN  /\ Usable(A) => r.success /\ r.text = TextsJoined(A.pages)
                /\ (~Usable(A) /\ Usable(B)) =>
                       r.success /\ r.text = TextsJoined(B.pages)
                /\ (~Usable(A) /\ ~Usable(B)) =>
                       /\ ~r.success
                       /\ r.text = <<>>
                       /\ r.error = "Could not extract text from PDF"

\* C11 witness: page 2 raises under PyPDF2 and under pdfplumber, page 1 is
\* readable under both, and the extraction has failed
C11_Witness ==
    /\ xfile.type = PdfType
    /\ SecondPageRaises(xfile.pypdf2)
    /\ SecondPageRaises(xfile.pdfplumber)
    /\ Len(xresults) >= 1
    /\ ~xresults[1].success

\* C12: extraction is idempotent: every call of extract_text_from_file on the
\* same uploaded file, whose bytes do not change, returns the same text, the
\* same success flag and the same error, wherever the call before it left
\* the read position of the stream.
C12_ExtractionIdempotent ==
    \A j \in 1..Len(xresults), k \in 1..Len(xresults) :
        /\ xresults[j].text = xresults[k].text
        /\ xresults[j].success = xresults[k].success
        /\ xresults[j].error = xresults[k].error

\* C12 witness: a PDF that only pdfplumber can read has been extracted twice,
\* the second time from a stream the first call had left off its start
C12_Witness ==
    /\ Len(xresults) = 2
    /\ xfile.type = PdfType
    /\ xresults[1].calls[1].pos = 0
    /\ xresults[2].calls[1].pos # 0
    /\ Len(xresults[2].calls) = 2
    /\ xresults[2].success

\* ---- progress values are fractions <<numerator, denominator>>
Below(f, g) == f[1] * g[2] < g[1] * f[2]
SameValue(f, g) == f[1] * g[2] = g[1] * f[2]
\* the values progress_bar.progress(...) was called with, after st.progress(0)
Emitted == Tail(progress)

\* C13 as stated: the progress values emitted during a batch of `total`
\* documents are exactly `total` values, strictly increasing, the j-th being
\* j/total, the last being 1.0, and no value is emitted twice.
C13_ProgressStrictlyIncreasing ==
    bpc = "done" =>
        /\ Len(Emitted) = total_files
        /\ \A j \in 1..Len(Emitted) : Emitted[j] = Fraction(j, total_files)
        /\ \A i \in 1..Len(Emitted), j \in 1..Len(Emitted) :
               i < j => Below(Emitted[i], Emitted[j])
        /\ SameValue(Emitted[Len(Emitted)], Fraction(1, 1))

\* C13, amended: the bar is created at 0; after item j (j = 1..total) the
\* value j/total is emitted, so the per-item values are strictly increasing
\* and end at 1.0; once the loop is over 1.0 is emitted once more.  A
\* finished batch has emitted total + 1 values in non-decreasing order, 1.0
\* being the only value emitted twice.
C13_ProgressPerItemThenFinal ==
    bpc # "idle" =>
        /\ progress[1] = Fraction(0, 1)
        /\ \A j \in 1..idx : Emitted[j] = Fraction(j, total_files)
        /\ \A i \in 1..idx, j \in 1..idx : i < j => Below(Emitted[i], Emitted[j])
        /\ bpc # "done" => Len(Emitted) = idx
        /\ bpc = "done" =>
               /\ idx = total_files
               /\ Len(Emitted) = total_files + 1
               /\ Emitted[total_files + 1] = Fraction(1, 1)
               /\ SameValue(Emitted[total_files], Emitted[total_files + 1])

\* C13 witness: a finished batch of three documents
C13_Witness ==
    /\ bpc = "done"
    /\ total_files = 3
    /\ Emitted = <<Fraction(1, 3), Fraction(2, 3), Fraction(3, 3), Fraction(1, 1)>>

RECURSIVE YieldingDocs(_)
\* the positions, among the first k input documents, of those that yielded a
\* record, ascending
YieldingDocs(k) ==
    IF k = 0 THEN <<>>
    ELSE YieldingDocs(k - 1) \o (IF Yields(outcomes[k]) THEN <<k>> ELSE <<>>)

\* a text document extract_text_from_file can read
Readable(file) == file.decodes /\ ~IsBlank(file.bytes)

\* C14: the documents of a batch are processed strictly in input order, one
\* at a time: the documents with an outcome are always the first idx of the
\* input, the i-th outcome being document i's; the document being extracted
\* or analysed is the next one, idx + 1, and its pipeline runs only while the
\* loop waits for it; records are appended in the order of their documents.
C14_InInputOrderOneAtATime ==
    bpc # "idle" =>
        /\ idx = Len(outcomes)
        /\ idx <= total_files
        /\ \A i \in 1..Len(outcomes) :
               outcomes[i].extracted = Readable(uploaded_files[i])
        /\ bpc \in {"analyze", "await"} =>
               /\ idx < total_files
               /\ Readable(uploaded_files[idx + 1])
               /\ resume_text = uploaded_files[idx + 1].bytes
        /\ ppc # "idle" => bpc = "await"
        /\ Len(BatchRecords) = Len(YieldingDocs(idx))
        /\ \A i \in 1..Len(BatchRecords) :
               LET d == YieldingDocs(idx)[i]
               IN  /\ BatchRecords[i].resume_file = uploaded_files[d].name
                   /\ BatchRecords[i].confidence_score
                        = ScoreOf(outcomes[d].result)

\* C14 witness: document 1 has its record, document 2 failed extraction and
\* document 3 is being analysed
C14_Witness ==
    /\ bpc = "await"
    /\ ppc = "Scoring"
    /\ total_files = 3
    /\ idx = 2
    /\ Yields(outcomes[1])
    /\ ~outcomes[2].extracted
    /\ Len(BatchRecords) = 1

\* no source holds any value: the credential pool is empty
NoCredentialAnywhere ==
    /\ ~st_secrets.available
    /\ \A i \in KeySlots : environ[i] = NONE
    /\ environ_single = NONE

\* the failure-list reason line 247 builds from the configuration error
ConfigErrorReason == <<"Analysis error", "ValueError: No API keys configured!">>

\* C15 as stated: with an empty credential pool the configuration error is
\* not converted into a per-document failure entry: it surfaces before any
\* document is processed, so when it arises no document has been extracted,
\* none is counted as failed and the failure list never carries it.
C15_ConfigErrorSurfaces ==
    NoCredentialAnywhere =>
        /\ ppc = "ConfigError" =>
               /\ resume_text = <<>>
               /\ outcomes = <<>>
               /\ failed = 0
        /\ \A i \in 1..Len(failed_files) :
               failed_files[i].reason # ConfigErrorReason

\* ---- the sources, read without the loader
\* a value that is a credential: set, not empty, not the template placeholder
IsCredential(value) == value \notin {NONE, "", Placeholder}

\* the slots of a store that hold a credential
CredentialSlots(store) == { i \in KeySlots : IsCredential(store[i]) }

\* the p-th smallest element of a set of slots
NthSlot(S, p) == CHOOSE i \in S : Cardinality({ j \in S : j < i }) = p - 1

\* the credentials of a store in ascending key number
InKeyOrder(store) ==
    [p \in 1..Cardinality(CredentialSlots(store)) |->
        store[NthSlot(CredentialSlots(store), p)]]

SecretCredentials ==
    IF st_secrets.available THEN InKeyOrder(st_secrets.keys) ELSE <<>>

\* C16 as stated: initialisation consults the secrets keys 1..9, then the
\* environment keys 1..9, then the single fallback key, and stops at the
\* first source that yields at least one credential; the pool is that
\* source's credentials alone, in ascending key number.
C16_FirstYieldingSource ==
    Constructed =>
        api_keys =
            IF SecretCredentials # <<>> THEN SecretCredentials
            ELSE IF InKeyOrder(environ) # <<>> THEN InKeyOrder(environ)
            ELSE IF IsCredential(environ_single) THEN <<environ_single>>
            ELSE <<>>

\* C17 as stated: a key equal to the placeholder is never loaded into the
\* pool, whichever source it comes from.
C17_PlaceholderNeverLoaded ==
    Constructed => \A p \in 1..Len(api_keys) : api_keys[p] # Placeholder

\* the threads that hold manager m
UsersOf(m) == { c \in Callers : callers[c].manager = m }
AllDone == \A c \in Callers : callers[c].pc = "done"

\* C18 as stated: rotate_to_next is atomic with respect to concurrent
\* callers: when the threads that share a manager of N >= 2 credentials have
\* each completed one rotate_to_next(), under every interleaving the index
\* has advanced by exactly the number of calls, modulo N (no update is lost),
\* and each caller was returned the credential at the index it set itself.
C18_RotateAtomic ==
    AllDone =>
        \A m \in 1..Len(managers) :
            LET self == managers[m]
                N == Len(self.api_keys)
            IN  N >= 2 =>
                    /\ self.current_index = Cardinality(UsersOf(m)) % N
                    /\ \A c \in UsersOf(m) :
                           callers[c].got = self.api_keys[callers[c].index_set + 1]

\* C19 as stated: the rotator is constructed exactly once, for any number
\* and interleaving of get_api_key_manager() calls, two concurrent first
\* calls included: no second APIKeyManager is ever built and every caller is
\* handed the same object.
C19_ConstructedOnce ==
    /\ Len(managers) <= 1
    /\ \A c \in Callers, d \in Callers :
           (callers[c].manager # 0 /\ callers[d].manager # 0) =>
               callers[c].manager = callers[d].manager

\* C20: for a PDF the strategies are tried in the order PyPDF2, pdfplumber:
\* pdfplumber is attempted only if PyPDF2 raised or produced blank text, never
\* once PyPDF2 has produced non-blank text; it reads the document from its
\* start; and the extraction fails only if both raised or produced blank
\* text.
C20_StrategiesInOrder ==
    \A k \in 1..Len(xresults) :
        xfile.type = PdfType =>
            LET r == xresults[k]
            IN  /\ Len(r.calls) \in {1, 2}
                /\ r.calls[1].library = "PyPDF2"
                /\ (Len(r.calls) = 2) = ~Usable(xfile.pypdf2)
                /\ Len(r.calls) = 2 => r.calls[2] = Call("pdfplumber", 0)
                /\ (~r.success) = (~Usable(xfile.pypdf2) /\ ~Usable(xfile.pdfplumber))

\* C20 witness: PyPDF2 reads the document through but finds only blank text,
\* and pdfplumber, called second on a stream that was not at its start when
\* the call began, reads it from the start and succeeds
C20_Witness ==
    /\ xfile.type = PdfType
    /\ ReadsThrough(xfile.pypdf2)
    /\ Len(xfile.pypdf2.pages) = 2
    /\ Len(xresults) = 2
    /\ xresults[2].calls = <<Call("PyPDF2", 1), Call("pdfplumber", 0)>>
    /\ xresults[2].success
    /\ xresults[2].text = TextsJoined(xfile.pdfplumber.pages)

\* C21: rotation changes only which index is current: once the manager is
\* built no call adds, removes, replaces or reorders a credential; a call of
\* get_current_key(), get_key_number() or get_total_keys() (any call but
\* rotate_to_next()) leaves current_index as it was; and get_key_number()
\* returns current_index + 1.
C21_RotationOnlyMovesIndex ==
    [][Constructed =>
          /\ api_keys' = api_keys
          /\ ret'.op # "rotate_to_next" => current_index' = current_index
          /\ ret'.op = "get_key_number" =>
                 /\ ret'.value = current_index + 1
                 /\ ret'.value = current_index' + 1]_vars

\* C21 witness: a pool of three, rotated four times, then asked its key number
C21_Witness ==
    /\ Constructed
    /\ api_keys = <<EnvKey(1), EnvKey(2), EnvKey(3)>>
    /\ rotate_calls = 4
    /\ current_index = 1
    /\ ret = Returned("get_key_number", 2)

\* C22: over any sequence of batch runs in one session the result list only
\* grows at its end: no step removes, reorders or modifies (shortlisted flag
\* included) a record already in the list; starting a run appends nothing;
\* within a run the list grows exactly when, and by as much as, the run's
\* successful count grows, so a run appends as many records as its
\* successful count; and a step that counts a failed document appends none.
C22_ResultsAppendOnly ==
    [][/\ Len(all_results') >= Len(all_results)
       /\ SubSeq(all_results', 1, Len(all_results)) = all_results
       /\ IF bpc \in {"idle", "done"}
          THEN all_results' = all_results
          ELSE /\ Len(all_results') - Len(all_results) = successful' - successful
               /\ failed' # failed => all_results' = all_results]_vars

\* C22 witness: a first run of one document, shortlisted at score 70 under
\* threshold 70, then a second run under threshold 100 of two documents, one
\* failed and one scored 70 again and not shortlisted; the first record is
\* as it was
C22_Witness ==
    /\ bpc = "done"
    /\ session_docs = 3
    /\ total_files = 2
    /\ successful = 1
    /\ failed = 1
    /\ shortlist_threshold = 100
    /\ Len(all_results) = 2
    /\ all_results[1].confidence_score = 70
    /\ all_results[1].shortlisted
    /\ all_results[2].confidence_score = 70
    /\ ~all_results[2].shortlisted

====
